---- MODULE Spec2Model ----
(***************************************************************************)
(* The LS-8 virtual CPU of src/ls8/cpu.py: construction, load() and the    *)
(* fetch-decode-execute loop of run(), one action per decoded opcode, and  *)
(* the ALU entry point alu().  Python list indexing is modelled as Python  *)
(* defines it: an index i of a list of length n is valid for -n <= i < n,  *)
(* a negative index counts from the end, anything else raises IndexError.  *)
(***************************************************************************)
EXTENDS Integers, Sequences, FiniteSets, TLC

\* ------------------------------------------------------------ constants
HLT == 1
PRN == 71
LDI == 130
MUL == 162
ADD == 160
PUSH == 69
POP == 70
CALL == 80
IRET == 19

RamSize == 256
NumRegs == 8
InitSP == 244

\* ------------------------------------------------------------ bounds
\* Longest generated instruction sequence that follows the register set-up.
MaxBody == 2

VARIABLES
    ram,        \* self.ram: the 256 memory cells
    reg,        \* self.reg: the 8 registers
    pc,         \* self.pc
    sp,         \* self.sp
    fl,         \* self.fl
    running,    \* run()'s local flag `running`
    IR,         \* run()'s local IR (last fetched opcode)
    operand_a,  \* run()'s local operand_a
    operand_b,  \* run()'s local operand_b
    out,        \* what print() has written, one entry per call
    stage,      \* "new" | "running" | "returned" | "IndexError" | "Exception"
    prog,       \* the instruction sequence load() was given
    hist,       \* the last two cycles: the fetched instruction and the state before it
    tick        \* parity of the number of cycles run() has begun

vars == <<ram, reg, pc, sp, fl, running, IR, operand_a, operand_b, out,
          stage, prog, hist, tick>>

\* ------------------------------------------------------------ Python lists
\* Whether i is a valid index of a Python list of length n.
ListOK(n, i) == i >= -n /\ i < n

\* The position (from 0) a valid index i of a list of length n denotes.
ListAt(n, i) == IF i < 0 THEN n + i ELSE i

\* self.ram[i]: whether the access succeeds, and the cell it reaches.
RamIndex_Wrap(i) == [ok |-> TRUE, at |-> i % RamSize]
RamIndex(i) == [ok |-> ListOK(RamSize, i), at |-> ListAt(RamSize, i)]

\* self.reg[i]: whether the access succeeds, and the register it reaches.
RegIndex_Mask(i) == [ok |-> TRUE, at |-> i % NumRegs]
RegIndex(i) == [ok |-> ListOK(NumRegs, i), at |-> ListAt(NumRegs, i)]

ram_read(MAR) == ram[RamIndex(MAR).at]

\* ------------------------------------------------------------ programs
\* Register set-ups a generated program starts with.
Preludes ==
    {<< >>, << <<LDI, 0, 2>> >>, << <<LDI, 0, 3>>, <<LDI, 1, 2>> >>}

\* The instructions a generated program continues with; operand 8 is no register.
Alphabet ==
    {<<HLT>>, <<IRET>>, <<LDI, 8, 3>>, <<CALL, 8>>}
    \cup {<<op, r>> : op \in {PRN, PUSH, POP}, r \in {0, 1, 8}}
    \cup {<<ADD, 0, 0>>, <<ADD, 0, 1>>, <<ADD, 0, 8>>}
    \cup {<<MUL, 0, 0>>, <<MUL, 1, 0>>, <<MUL, 8, 0>>}

Bodies == UNION {[1..k -> Alphabet] : k \in 0..MaxBody}

ScenarioA == << <<LDI, 0, 8>>, <<PRN, 0>>, <<HLT>> >>
ScenarioB == << <<LDI, 0, 5>>, <<LDI, 1, 6>>, <<ADD, 0, 1>>, <<PRN, 0>>, <<HLT>> >>
ScenarioC == << <<LDI, 0, 3>>, <<LDI, 1, 4>>, <<MUL, 0, 1>>, <<PRN, 0>>, <<HLT>> >>

\* LDI with the extreme immediates, printed.
PrintProgram ==
    << <<LDI, 7, 255>>, <<PRN, 7>>, <<LDI, 7, 0>>, <<PRN, 7>>, <<HLT>> >>

\* A register grows past one byte and is pushed.
GrowProgram ==
    << <<LDI, 0, 255>>, <<ADD, 0, 0>>, <<PUSH, 0>>, <<POP, 7>>, <<PRN, 7>>, <<HLT>> >>

\* A subroutine at address 7 is called and halts there.
CallProgram ==
    << <<LDI, 1, 7>>, <<CALL, 1>>, <<PRN, 1>>, <<HLT>>, <<PRN, 0>>, <<HLT>> >>

\* A balanced loop: POP, then CALL back to address 0; the HLT is never reached.
LoopProgram == << <<POP, 1>>, <<CALL, 0>>, <<HLT>> >>

\* CALL R0 with R0 = 0 at address 0: the stack grows down into the code.
CallSelfProgram == << <<CALL, 0>>, <<HLT>> >>

\* A jump to address 20, past the image, where memory is still 0.
JumpZeroProgram == << <<LDI, 1, 20>>, <<CALL, 1>>, <<HLT>> >>

\* A jump to address 254, where the fetch reads past the last cell.
JumpHighProgram == << <<LDI, 0, 254>>, <<CALL, 0>>, <<HLT>> >>

\* Thirteen POPs from the initial sp = 244 take sp past the last cell.
PopProgram == [i \in 1..14 |-> IF i = 14 THEN <<HLT>> ELSE <<POP, 0>>]

\* LDI R0,244; CALL R0; zero bytes up to address 243; CALL R0 at address 244:
\* a loop that lies above the stack and pushes until sp runs below 0.
DeepCallProgram ==
    [i \in 1..242 |-> IF i = 1 THEN <<LDI, 0, InitSP>>
                      ELSE IF i \in {2, 242} THEN <<CALL, 0>>
                      ELSE <<0>>]

\* The same with PUSH R1; CALL R0 as the loop.
DeepPushProgram ==
    [i \in 1..243 |-> IF i = 1 THEN <<LDI, 0, InitSP>>
                      ELSE IF i \in {2, 243} THEN <<CALL, 0>>
                      ELSE IF i = 242 THEN <<PUSH, 1>>
                      ELSE <<0>>]

\* LDI R0,t; CALL R0; zero bytes up to address 253; HLT at 254 and at 255:
\* a jump to a HLT in one of the last two cells.
HaltHighProgram(t) ==
    [i \in 1..253 |-> IF i = 1 THEN <<LDI, 0, t>>
                      ELSE IF i = 2 THEN <<CALL, 0>>
                      ELSE IF i \in {252, 253} THEN <<HLT>>
                      ELSE <<0>>]

Programs ==
    {p \o b : p \in Preludes, b \in Bodies}
    \cup {ScenarioA, ScenarioB, ScenarioC, PrintProgram, GrowProgram, CallProgram,
          LoopProgram, CallSelfProgram, JumpZeroProgram, JumpHighProgram, PopProgram,
          DeepCallProgram, DeepPushProgram,
          HaltHighProgram(RamSize - 2), HaltHighProgram(RamSize - 1)}

\* Programs of table instructions with in-range operands that end in HLT, and
\* the hand-written ones among the above that the loop runs longest on.
TableAlphabet ==
    {<<HLT>>, <<IRET>>, <<PRN, 0>>, <<PRN, 1>>, <<PUSH, 0>>, <<POP, 1>>,
     <<ADD, 0, 1>>, <<MUL, 0, 0>>}

TablePrograms ==
    {p \o b \o << <<HLT>> >> :
        p \in Preludes, b \in UNION {[1..k -> TableAlphabet] : k \in 0..MaxBody}}
    \cup {ScenarioA, ScenarioB, ScenarioC, PrintProgram, GrowProgram, CallProgram,
          LoopProgram, JumpZeroProgram, JumpHighProgram, PopProgram}

\* The bytes of a program: its instructions one after the other.
RECURSIVE Flatten(_)
Flatten(p) ==
    IF Len(p) = 0 THEN << >>
    ELSE IF Len(p) = 1 THEN p[1]
    ELSE LET h == Len(p) \div 2
         IN Flatten(SubSeq(p, 1, h)) \o Flatten(SubSeq(p, h + 1, Len(p)))

\* ------------------------------------------------------------ construction
Init_StackAtTop ==
    /\ ram = [i \in 0..(RamSize - 1) |-> 0]
    /\ reg = [i \in 0..(NumRegs - 1) |-> 0]
    /\ pc = 0
    /\ sp = RamSize - 1
    /\ fl = FALSE
    /\ running = FALSE
    /\ IR = 0
    /\ operand_a = 0
    /\ operand_b = 0
    /\ out = << >>
    /\ stage = "new"
    /\ prog = << >>
    /\ hist = << >>
    /\ tick = 0
Init ==
    /\ ram = [i \in 0..(RamSize - 1) |-> 0]
    /\ reg = [i \in 0..(NumRegs - 1) |-> 0]
    /\ pc = 0
    /\ sp = InitSP
    /\ fl = FALSE
    /\ running = FALSE
    /\ IR = 0
    /\ operand_a = 0
    /\ operand_b = 0
    /\ out = << >>
    /\ stage = "new"
    /\ prog = << >>
    /\ hist = << >>
    /\ tick = 0

\* load() writes the image of p from address 0 on; run() is then entered and
\* sets its flag (line 127).
LoadImage(p) ==
    LET bytes == Flatten(p) IN
    /\ stage = "new"
    /\ Len(bytes) <= RamSize
    /\ prog' = p
    /\ ram' = [i \in 0..(RamSize - 1) |-> IF i < Len(bytes) THEN bytes[i + 1] ELSE ram[i]]
    /\ running' = TRUE
    /\ stage' = "running"
    /\ UNCHANGED <<reg, pc, sp, fl, IR, operand_a, operand_b, out, hist, tick>>

load ==
    /\ stage = "new"
    /\ \E p \in Programs : LoadImage(p)

loadTable ==
    /\ stage = "new"
    /\ \E p \in TablePrograms : LoadImage(p)

\* ------------------------------------------------------------ alu()
alu_IntoSecond(op, reg_a, reg_b) ==
    IF op \in {ADD, MUL} /\ RegIndex(reg_a).ok /\ RegIndex(reg_b).ok
    THEN [reg |-> [reg EXCEPT ![RegIndex(reg_b).at] =
                      IF op = ADD
                      THEN reg[RegIndex(reg_a).at] + reg[RegIndex(reg_b).at]
                      ELSE reg[RegIndex(reg_a).at] * reg[RegIndex(reg_b).at]],
          exc |-> "none"]
    ELSE [reg |-> reg, exc |-> IF op \in {ADD, MUL} THEN "IndexError" ELSE "Exception"]
alu_Silent(op, reg_a, reg_b) ==
    IF op \in {ADD, MUL} /\ RegIndex(reg_a).ok /\ RegIndex(reg_b).ok
    THEN [reg |-> [reg EXCEPT ![RegIndex(reg_a).at] =
                      IF op = ADD
                      THEN reg[RegIndex(reg_a).at] + reg[RegIndex(reg_b).at]
                      ELSE reg[RegIndex(reg_a).at] * reg[RegIndex(reg_b).at]],
          exc |-> "none"]
    ELSE [reg |-> reg, exc |-> IF op \in {ADD, MUL} THEN "IndexError" ELSE "none"]
alu_Clamp(op, reg_a, reg_b) ==
    IF op \in {ADD, MUL} /\ RegIndex(reg_a).ok /\ RegIndex(reg_b).ok
    THEN [reg |-> [reg EXCEPT ![RegIndex(reg_a).at] =
                      IF op = ADD
                      THEN (reg[RegIndex(reg_a).at] + reg[RegIndex(reg_b).at]) % 256
                      ELSE (reg[RegIndex(reg_a).at] * reg[RegIndex(reg_b).at]) % 256],
          exc |-> "none"]
    ELSE [reg |-> reg, exc |-> IF op \in {ADD, MUL} THEN "IndexError" ELSE "Exception"]
\* alu(op, reg_a, reg_b): the registers it leaves and how it ends.
alu(op, reg_a, reg_b) ==
    IF op = ADD
    THEN IF RegIndex(reg_a).ok /\ RegIndex(reg_b).ok
         THEN [reg |-> [reg EXCEPT ![RegIndex(reg_a).at] =
                           reg[RegIndex(reg_a).at] + reg[RegIndex(reg_b).at]],
               exc |-> "none"]
         ELSE [reg |-> reg, exc |-> "IndexError"]
    ELSE IF op = MUL
    THEN IF RegIndex(reg_a).ok /\ RegIndex(reg_b).ok
         THEN [reg |-> [reg EXCEPT ![RegIndex(reg_a).at] =
                           reg[RegIndex(reg_a).at] * reg[RegIndex(reg_b).at]],
               exc |-> "none"]
         ELSE [reg |-> reg, exc |-> "IndexError"]
    ELSE [reg |-> reg, exc |-> "Exception"]

\* ------------------------------------------------------------ run()
\* The three reads of a cycle (lines 129, 135, 137) all succeed.
Fetched ==
    /\ RamIndex(pc).ok
    /\ RamIndex(pc + 1).ok
    /\ RamIndex(pc + 2).ok

\* The cycle being executed, with the state it started from; of the cycle
\* before it the memory is dropped.
Log(op, a, b) ==
    LET rec == [op |-> op, a |-> a, b |-> b, pc |-> pc, sp |-> sp,
                reg |-> reg, out |-> out, ram |-> ram]
    IN IF hist = << >> THEN <<rec>>
       ELSE <<[hist[Len(hist)] EXCEPT !.ram = << >>], rec>>

\* One of the reads of the fetch raises IndexError: run() ends there.
FetchFault ==
    /\ stage = "running"
    /\ ~Fetched
    /\ IR' = IF RamIndex(pc).ok THEN ram_read(pc) ELSE IR
    /\ operand_a' = IF RamIndex(pc).ok /\ RamIndex(pc + 1).ok
                    THEN ram_read(pc + 1) ELSE operand_a
    /\ operand_b' = operand_b
    /\ hist' = Log(-1, -1, -1)
    /\ tick' = 1 - tick
    /\ stage' = "IndexError"
    /\ UNCHANGED <<ram, reg, pc, sp, fl, running, out, prog>>

\* The fetch of a cycle whose opcode byte is op.
Decode(op) ==
    /\ stage = "running"
    /\ Fetched
    /\ ram_read(pc) = op
    /\ IR' = op
    /\ operand_a' = ram_read(pc + 1)
    /\ operand_b' = ram_read(pc + 2)
    /\ hist' = Log(op, ram_read(pc + 1), ram_read(pc + 2))
    /\ tick' = 1 - tick

ExecHLT_NoStop ==
    /\ Decode(HLT)
    /\ UNCHANGED <<ram, reg, pc, sp, fl, running, out, stage, prog>>
ExecHLT ==
    /\ Decode(HLT)
    /\ running' = FALSE
    /\ stage' = "returned"
    /\ UNCHANGED <<ram, reg, pc, sp, fl, out, prog>>

ExecCALL_WriteFirst ==
    /\ Decode(CALL)
    /\ sp' = sp - 1
    /\ IF RamIndex(sp).ok /\ RegIndex(ram_read(pc + 1)).ok
       THEN /\ ram' = [ram EXCEPT ![RamIndex(sp).at] = pc + 2]
            /\ pc' = reg[RegIndex(ram_read(pc + 1)).at]
            /\ stage' = "running"
       ELSE /\ ram' = ram
            /\ pc' = pc
            /\ stage' = "IndexError"
    /\ UNCHANGED <<reg, fl, running, out, prog>>
ExecCALL ==
    /\ Decode(CALL)
    /\ sp' = sp - 1
    /\ IF RamIndex(sp - 1).ok
       THEN /\ ram' = [ram EXCEPT ![RamIndex(sp - 1).at] = pc + 2]
            /\ IF RegIndex(ram_read(pc + 1)).ok
               THEN /\ pc' = reg[RegIndex(ram_read(pc + 1)).at]
                    /\ stage' = "running"
               ELSE /\ pc' = pc
                    /\ stage' = "IndexError"
       ELSE /\ ram' = ram
            /\ pc' = pc
            /\ stage' = "IndexError"
    /\ UNCHANGED <<reg, fl, running, out, prog>>

ExecIRET ==
    /\ Decode(IRET)
    /\ UNCHANGED <<ram, reg, pc, sp, fl, running, out, stage, prog>>

ExecPUSH_Wide ==
    /\ Decode(PUSH)
    /\ sp' = sp - 1
    /\ IF RegIndex(ram_read(pc + 1)).ok /\ RamIndex(sp - 1).ok
       THEN /\ ram' = [ram EXCEPT ![RamIndex(sp - 1).at] =
                           reg[RegIndex(ram_read(pc + 1)).at]]
            /\ pc' = pc + 3
            /\ stage' = "running"
       ELSE /\ ram' = ram
            /\ pc' = pc
            /\ stage' = "IndexError"
    /\ UNCHANGED <<reg, fl, running, out, prog>>
ExecPUSH ==
    /\ Decode(PUSH)
    /\ sp' = sp - 1
    /\ IF RegIndex(ram_read(pc + 1)).ok /\ RamIndex(sp - 1).ok
       THEN /\ ram' = [ram EXCEPT ![RamIndex(sp - 1).at] =
                           reg[RegIndex(ram_read(pc + 1)).at]]
            /\ pc' = pc + 2
            /\ stage' = "running"
       ELSE /\ ram' = ram
            /\ pc' = pc
            /\ stage' = "IndexError"
    /\ UNCHANGED <<reg, fl, running, out, prog>>

ExecPOP_IncFirst ==
    /\ Decode(POP)
    /\ IF RamIndex(sp + 1).ok /\ RegIndex(ram_read(pc + 1)).ok
       THEN /\ reg' = [reg EXCEPT ![RegIndex(ram_read(pc + 1)).at] = ram_read(sp + 1)]
            /\ sp' = sp + 1
            /\ pc' = pc + 2
            /\ stage' = "running"
       ELSE /\ reg' = reg
            /\ sp' = sp
            /\ pc' = pc
            /\ stage' = "IndexError"
    /\ UNCHANGED <<ram, fl, running, out, prog>>
ExecPOP_ClearsSlot ==
    /\ Decode(POP)
    /\ IF RamIndex(sp).ok /\ RegIndex(ram_read(pc + 1)).ok
       THEN /\ reg' = [reg EXCEPT ![RegIndex(ram_read(pc + 1)).at] = ram_read(sp)]
            /\ ram' = [ram EXCEPT ![RamIndex(sp).at] = 0]
            /\ sp' = sp + 1
            /\ pc' = pc + 2
            /\ stage' = "running"
       ELSE /\ reg' = reg
            /\ ram' = ram
            /\ sp' = sp
            /\ pc' = pc
            /\ stage' = "IndexError"
    /\ UNCHANGED <<fl, running, out, prog>>
ExecPOP ==
    /\ Decode(POP)
    /\ IF RamIndex(sp).ok /\ RegIndex(ram_read(pc + 1)).ok
       THEN /\ reg' = [reg EXCEPT ![RegIndex(ram_read(pc + 1)).at] = ram_read(sp)]
            /\ sp' = sp + 1
            /\ pc' = pc + 2
            /\ stage' = "running"
       ELSE /\ reg' = reg
            /\ sp' = sp
            /\ pc' = pc
            /\ stage' = "IndexError"
    /\ UNCHANGED <<ram, fl, running, out, prog>>

ExecLDI_LoadsIndex ==
    /\ Decode(LDI)
    /\ IF RegIndex(ram_read(pc + 1)).ok
       THEN /\ reg' = [reg EXCEPT ![RegIndex(ram_read(pc + 1)).at] = ram_read(pc + 1)]
            /\ pc' = pc + 3
            /\ stage' = "running"
       ELSE /\ reg' = reg
            /\ pc' = pc
            /\ stage' = "IndexError"
    /\ UNCHANGED <<ram, sp, fl, running, out, prog>>
ExecLDI ==
    /\ Decode(LDI)
    /\ IF RegIndex(ram_read(pc + 1)).ok
       THEN /\ reg' = [reg EXCEPT ![RegIndex(ram_read(pc + 1)).at] = ram_read(pc + 2)]
            /\ pc' = pc + 3
            /\ stage' = "running"
       ELSE /\ reg' = reg
            /\ pc' = pc
            /\ stage' = "IndexError"
    /\ UNCHANGED <<ram, sp, fl, running, out, prog>>

ExecMUL ==
    /\ Decode(MUL)
    /\ LET r == alu(MUL, ram_read(pc + 1), ram_read(pc + 2)) IN
       /\ reg' = r.reg
       /\ pc' = IF r.exc = "none" THEN pc + 3 ELSE pc
       /\ stage' = IF r.exc = "none" THEN "running" ELSE r.exc
    /\ UNCHANGED <<ram, sp, fl, running, out, prog>>

ExecADD ==
    /\ Decode(ADD)
    /\ LET r == alu(ADD, ram_read(pc + 1), ram_read(pc + 2)) IN
       /\ reg' = r.reg
       /\ pc' = IF r.exc = "none" THEN pc + 3 ELSE pc
       /\ stage' = IF r.exc = "none" THEN "running" ELSE r.exc
    /\ UNCHANGED <<ram, sp, fl, running, out, prog>>

ExecPRN_PrintsOperand ==
    /\ Decode(PRN)
    /\ IF RegIndex(ram_read(pc + 1)).ok
       THEN /\ out' = Append(out, ram_read(pc + 1))
            /\ pc' = pc + 2
            /\ stage' = "running"
       ELSE /\ out' = out
            /\ pc' = pc
            /\ stage' = "IndexError"
    /\ UNCHANGED <<ram, reg, sp, fl, running, prog>>
ExecPRN_Prepends ==
    /\ Decode(PRN)
    /\ IF RegIndex(ram_read(pc + 1)).ok
       THEN /\ out' = <<reg[RegIndex(ram_read(pc + 1)).at]>> \o out
            /\ pc' = pc + 2
            /\ stage' = "running"
       ELSE /\ out' = out
            /\ pc' = pc
            /\ stage' = "IndexError"
    /\ UNCHANGED <<ram, reg, sp, fl, running, prog>>
ExecPRN ==
    /\ Decode(PRN)
    /\ IF RegIndex(ram_read(pc + 1)).ok
       THEN /\ out' = Append(out, reg[RegIndex(ram_read(pc + 1)).at])
            /\ pc' = pc + 2
            /\ stage' = "running"
       ELSE /\ out' = out
            /\ pc' = pc
            /\ stage' = "IndexError"
    /\ UNCHANGED <<ram, reg, sp, fl, running, prog>>

Opcodes == {HLT, CALL, IRET, PUSH, POP, LDI, MUL, ADD, PRN}

\* No branch of the if/elif cascade matches: the loop body does nothing more.
ExecOther ==
    /\ stage = "running"
    /\ Fetched
    /\ ram_read(pc) \notin Opcodes
    /\ Decode(ram_read(pc))
    /\ UNCHANGED <<ram, reg, pc, sp, fl, running, out, stage, prog>>

Next ==
    \/ load
    \/ FetchFault
    \/ ExecHLT
    \/ ExecCALL
    \/ ExecIRET
    \/ ExecPUSH
    \/ ExecPOP
    \/ ExecLDI
    \/ ExecMUL
    \/ ExecADD
    \/ ExecPRN
    \/ ExecOther

Spec == Init /\ [][Next]_vars

\* The machine given a program of table instructions that ends in HLT.
NextTable ==
    \/ loadTable
    \/ FetchFault
    \/ ExecHLT
    \/ ExecCALL
    \/ ExecIRET
    \/ ExecPUSH
    \/ ExecPOP
    \/ ExecLDI
    \/ ExecMUL
    \/ ExecADD
    \/ ExecPRN
    \/ ExecOther

\* run() is a loop that nothing suspends: while it has not ended, it takes
\* its next cycle.
FairSpec == Init /\ [][NextTable]_vars /\ WF_vars(NextTable)

\* ------------------------------------------------------------ alu() called directly
\* Number of alu() calls made on one machine.
MaxAluCalls == 1
\* Largest register value a machine starts with.
MaxAluValue == 3

AluTags == {ADD, MUL, LDI, 0}
AluArgs == {0, 1, 7, 8}

AluInit ==
    /\ ram = [i \in 0..(RamSize - 1) |-> 0]
    /\ \E x \in 0..MaxAluValue, y \in 0..MaxAluValue :
          reg = [i \in 0..(NumRegs - 1) |-> IF i = 0 THEN x ELSE IF i = 1 THEN y ELSE 0]
    /\ pc = 0
    /\ sp = InitSP
    /\ fl = FALSE
    /\ running = FALSE
    /\ IR = 0
    /\ operand_a = 0
    /\ operand_b = 0
    /\ out = << >>
    /\ stage = "new"
    /\ prog = << >>
    /\ hist = << >>
    /\ tick = 0

\* A caller invokes alu(op, reg_a, reg_b); an exception ends the calls.
AluCall ==
    /\ stage = "new"
    /\ Len(hist) < MaxAluCalls
    /\ \E op \in AluTags, a \in AluArgs, b \in AluArgs :
          LET r == alu(op, a, b) IN
          /\ reg' = r.reg
          /\ stage' = IF r.exc = "none" THEN "new" ELSE r.exc
          /\ hist' = Append(hist, [op |-> op, a |-> a, b |-> b, pc |-> pc, sp |-> sp,
                                   reg |-> reg, out |-> out, ram |-> << >>])
    /\ UNCHANGED <<ram, pc, sp, fl, running, IR, operand_a, operand_b, out, prog, tick>>

AluNext == AluCall

AluSpec == AluInit /\ [][AluNext]_vars

\* ------------------------------------------------------------ vocabulary of the claims
\* The last cycle (or alu call) and the state it started from.
Last == hist[Len(hist)]

\* The last cycle was a fetch of opcode op that ran to its end without an error.
Did(op) == hist # << >> /\ Last.op = op /\ stage \in {"running", "returned"}

IsReg(r) == r \in 0..(NumRegs - 1)

\* An instruction of the opcode table with in-range register operands.
TableInstr(ins) ==
    \/ ins \in {<<HLT>>, <<IRET>>}
    \/ Len(ins) = 2 /\ ins[1] \in {PRN, PUSH, POP, CALL} /\ IsReg(ins[2])
    \/ Len(ins) = 3 /\ ins[1] = LDI /\ IsReg(ins[2]) /\ ins[3] \in 0..255
    \/ Len(ins) = 3 /\ ins[1] \in {ADD, MUL} /\ IsReg(ins[2]) /\ IsReg(ins[3])

TableProgram(p) ==
    /\ p # << >>
    /\ \A i \in 1..Len(p) : TableInstr(p[i])
    /\ p[Len(p)] = <<HLT>>

\* PUSHes minus POPs among the first k instructions of p.
RECURSIVE NetPush(_, _)
NetPush(p, k) ==
    IF k = 0 THEN 0
    ELSE NetPush(p, k - 1)
         + (IF p[k][1] = PUSH THEN 1 ELSE IF p[k][1] = POP THEN -1 ELSE 0)

\* No CALL, no IRET, and a stack that stays between the image and the last cell.
StraightProgram(p) ==
    /\ TableProgram(p)
    /\ \A i \in 1..Len(p) : p[i][1] \notin {CALL, IRET}
    /\ \A k \in 1..Len(p) :
          /\ NetPush(p, k) >= InitSP - RamSize
          /\ InitSP - NetPush(p, k) >= Len(Flatten(p))

\* ------------------------------------------------------------ claims
\* C1 (as stated): every program of table instructions with in-range register
\* operands that ends in HLT makes run() terminate with its running flag false.
C1_Original ==
    [](stage = "running" /\ TableProgram(prog)
          => <>(stage = "returned" /\ ~running))

\* C1 (amended): every such program without CALL and IRET whose stack stays
\* between the image and the last cell makes run() return with running false.
C1_Terminates ==
    [](stage = "running" /\ StraightProgram(prog)
          => <>(stage = "returned" /\ ~running))

\* A straight program with stack traffic has run to its final HLT.
C1_Witness ==
    /\ stage = "returned"
    /\ ~running
    /\ StraightProgram(prog)
    /\ \E i \in 1..Len(prog) : prog[i][1] = PUSH
    /\ Last.op = HLT
    /\ Last.pc = Len(Flatten(prog)) - 1

\* C2: a cycle that fetches a byte outside the opcode table ends run() with
\* a fatal error, with pc and the registers as they were.
C2_UnknownOpcodeFatal ==
    (hist # << >> /\ stage # "new" /\ Last.op >= 0 /\ Last.op \notin Opcodes)
        => /\ stage \in {"IndexError", "Exception"}
           /\ pc = Last.pc
           /\ reg = Last.reg

\* C3 (as stated): ADD a,b / MUL a,b leaves register a with the sum / product
\* of the prior values and register b with its prior value, also when a = b.
C3_Original ==
    \A op \in {ADD, MUL} :
        (Did(op) /\ IsReg(Last.a) /\ IsReg(Last.b))
            => /\ reg[Last.a] = IF op = ADD THEN Last.reg[Last.a] + Last.reg[Last.b]
                                ELSE Last.reg[Last.a] * Last.reg[Last.b]
               /\ reg[Last.b] = Last.reg[Last.b]

\* C3 (amended): register a holds the sum / product of the prior values, and
\* register b keeps its prior value whenever b is another register than a.
C3_AluResult ==
    \A op \in {ADD, MUL} :
        (Did(op) /\ IsReg(Last.a) /\ IsReg(Last.b))
            => /\ reg[Last.a] = IF op = ADD THEN Last.reg[Last.a] + Last.reg[Last.b]
                                ELSE Last.reg[Last.a] * Last.reg[Last.b]
               /\ Last.b # Last.a => reg[Last.b] = Last.reg[Last.b]

\* An ADD of two different registers that both hold a value other than 0.
C3_Witness ==
    /\ Did(ADD)
    /\ Last.a # Last.b
    /\ Last.reg[Last.a] > 0
    /\ Last.reg[Last.b] > 0
    /\ reg[Last.a] = Last.reg[Last.a] + Last.reg[Last.b]

\* C4: PUSH r immediately followed by POP r2 leaves register r2 with the
\* value register r held before the PUSH, and sp as it was before the PUSH.
C4_PushPop ==
    (Len(hist) = 2 /\ hist[1].op = PUSH /\ IsReg(hist[1].a)
        /\ Did(POP) /\ IsReg(Last.a))
        => /\ reg[Last.a] = hist[1].reg[hist[1].a]
           /\ sp = hist[1].sp

\* A value other than 0 was pushed from one register and popped into another.
C4_Witness ==
    /\ Len(hist) = 2
    /\ hist[1].op = PUSH
    /\ Did(POP)
    /\ IsReg(hist[1].a)
    /\ IsReg(Last.a)
    /\ Last.a # hist[1].a
    /\ hist[1].reg[hist[1].a] > 0
    /\ reg[Last.a] = hist[1].reg[hist[1].a]

\* C5: CALL r executed at pc_before with sp = s leaves sp = s - 1, the stack
\* slot s - 1 holding pc_before + 2, and pc = the value register r held when
\* the CALL was fetched.  The slot is the one self.ram[s - 1] denotes.
C5_Call ==
    (Did(CALL) /\ IsReg(Last.a))
        => /\ sp = Last.sp - 1
           /\ ram_read(Last.sp - 1) = Last.pc + 2
           /\ (Last.sp - 1) \in 0..(RamSize - 1) => ram[Last.sp - 1] = Last.pc + 2
           /\ pc = Last.reg[Last.a]

\* A CALL whose stack slot is the cell of its own operand byte.
C5_Witness ==
    /\ Did(CALL)
    /\ IsReg(Last.a)
    /\ Last.sp - 1 = Last.pc + 1
    /\ ram[Last.pc + 1] = Last.pc + 2
    /\ pc = Last.reg[Last.a]

\* C6: LDI r,v with v in 0..255 immediately followed by PRN r emits exactly v
\* as the next output entry.
C6_LdiPrn ==
    (Len(hist) = 2 /\ hist[1].op = LDI /\ IsReg(hist[1].a) /\ hist[1].b \in 0..255
        /\ Did(PRN) /\ Last.a = hist[1].a)
        => out = Append(hist[1].out, hist[1].b)

\* The immediate 255 was loaded and printed.
C6_Witness ==
    /\ Len(hist) = 2
    /\ hist[1].op = LDI
    /\ hist[1].b = 255
    /\ Did(PRN)
    /\ Last.a = hist[1].a
    /\ out = <<255>>

\* The output the specification's end-to-end scenarios name.
ScenarioOutput ==
    IF prog = ScenarioA THEN <<8>> ELSE IF prog = ScenarioB THEN <<11>> ELSE <<12>>

\* C7: run() on scenario A, B, C halts with the complete output <<8>>, <<11>>,
\* <<12>>.
C7_Scenarios ==
    [](prog \in {ScenarioA, ScenarioB, ScenarioC}
          => <>[](stage = "returned" /\ out = ScenarioOutput))

\* Scenario C has halted after printing 12.
C7_Witness ==
    /\ prog = ScenarioC
    /\ stage = "returned"
    /\ out = <<12>>
    /\ Last.op = HLT

\* C8: a cycle whose fetch reads, or whose stack access reads or writes, an
\* address outside 0..255 ends run() with a fatal error and leaves memory as
\* it was.
C8_OutOfRangeFatal ==
    (hist # << >> /\ stage # "new"
        /\ \/ (Last.pc + 2) \notin 0..(RamSize - 1)
           \/ Last.op \in {PUSH, CALL} /\ (Last.sp - 1) \notin 0..(RamSize - 1)
           \/ Last.op = POP /\ Last.sp \notin 0..(RamSize - 1))
        => /\ stage = "IndexError"
           /\ ram = Last.ram

\* An operand of the last cycle that names a register is no register index.
BadRegisterOperand ==
    \/ Last.op \in {LDI, PRN, ADD, MUL, PUSH, POP, CALL} /\ ~IsReg(Last.a)
    \/ Last.op \in {ADD, MUL} /\ ~IsReg(Last.b)

\* C9: an instruction executed with a register operand byte outside 0..7 ends
\* run() with a fatal error; no register is written, and none is read into
\* the output, into memory or into pc.
C9_BadRegisterFatal ==
    (hist # << >> /\ stage # "new" /\ BadRegisterOperand)
        => /\ stage = "IndexError"
           /\ reg = Last.reg
           /\ out = Last.out
           /\ pc = Last.pc
           /\ Last.op # CALL => ram = Last.ram

\* A CALL whose operand byte is a return address an earlier CALL pushed.
C9_Witness ==
    /\ hist # << >>
    /\ Last.op = CALL
    /\ Last.a = Last.pc + 2
    /\ Last.ram[Last.pc + 1] = Last.a
    /\ ~IsReg(Last.a)
    /\ stage = "IndexError"

\* C10: alu() called with a tag other than ADD and MUL raises an exception
\* and leaves every register unchanged.
C10_UnsupportedOp ==
    (hist # << >> /\ Last.op \notin {ADD, MUL})
        => /\ stage = "Exception"
           /\ reg = Last.reg

\* alu(LDI, 0, 1) was called on registers that hold values other than 0.
C10_Witness ==
    /\ hist # << >>
    /\ Last.op = LDI
    /\ Last.a = 0
    /\ Last.b = 1
    /\ Last.reg[0] > 0
    /\ Last.reg[1] > 0
    /\ stage = "Exception"

\* C11: an instruction that ran to its end leaves pc = pc_before + 2 for PRN,
\* PUSH and POP, pc_before + 3 for LDI, ADD and MUL, and for CALL a exactly the
\* value of register a, with nothing added.
C11_PcAdvance ==
    /\ \A op \in {PRN, PUSH, POP} : Did(op) => pc = Last.pc + 2
    /\ \A op \in {LDI, ADD, MUL} : Did(op) => pc = Last.pc + 3
    /\ Did(CALL) => pc = Last.reg[Last.a]

\* An LDI and then a CALL have run, the CALL to an address that is neither
\* its own address + 2 nor + 3.
C11_Witness ==
    /\ Len(hist) = 2
    /\ hist[1].op = LDI
    /\ Last.pc = hist[1].pc + 3
    /\ Did(CALL)
    /\ pc = Last.reg[Last.a]
    /\ pc > Last.pc + 3

\* C12: the output is the sequence of the values register a held at each
\* executed PRN a, in order: it is empty before the first cycle, a PRN cycle
\* appends exactly that one value at its end, and every other cycle leaves it
\* as it was.
C12_OutputIsPrnValues ==
    /\ hist = << >> => out = << >>
    /\ (hist # << >> /\ stage # "new")
          => out = IF Did(PRN) THEN Append(Last.out, Last.reg[Last.a]) ELSE Last.out

\* A second PRN has appended a value other than the first one.
C12_Witness ==
    /\ Did(PRN)
    /\ Len(Last.out) = 1
    /\ out = Append(Last.out, Last.reg[Last.a])
    /\ out[1] # out[2]

\* C13: a newly constructed machine has 256 memory cells that all hold 0,
\* 8 registers that all hold 0, pc = 0, sp = 244 (0xF4) and fl = false.
C13_Constructed ==
    stage = "new"
        => /\ DOMAIN ram = 0..255
           /\ \A i \in DOMAIN ram : ram[i] = 0
           /\ DOMAIN reg = 0..7
           /\ \A i \in DOMAIN reg : reg[i] = 0
           /\ pc = 0
           /\ sp = 244
           /\ fl = FALSE

\* The machine as the constructor leaves it, before load() and run().
C13_Witness ==
    /\ stage = "new"
    /\ prog = << >>
    /\ hist = << >>
    /\ Cardinality(DOMAIN ram) = 256
    /\ Cardinality(DOMAIN reg) = 8
    /\ sp = 244

\* C14: IRET is a no-op that falls through: the cycle that decodes IRET at
\* address p changes no register, no memory cell, not sp and not fl, and
\* execution goes on past it: later the machine halts, or a cycle leaves pc
\* elsewhere than where it fetched, so that the next fetch is not from p.
C14_IretFallsThrough ==
    /\ [](Did(IRET) => reg = Last.reg /\ ram = Last.ram /\ sp = Last.sp /\ fl = FALSE)
    /\ [](Did(IRET) => <>(stage = "returned" \/ (stage = "running" /\ hist # << >> /\ pc # Last.pc)))

\* C15: register contents are not clamped to 8 bits: an ADD or MUL whose exact
\* integer result exceeds 255 leaves that result in register a, not its
\* remainder modulo 256 (LDI R0,255; ADD R0,R0 leaves R0 = 510, not 254).
C15_NotClamped ==
    \A op \in {ADD, MUL} :
        LET exact == IF op = ADD THEN Last.reg[Last.a] + Last.reg[Last.b]
                     ELSE Last.reg[Last.a] * Last.reg[Last.b]
        IN (Did(op) /\ exact > 255)
              => /\ reg[Last.a] = exact
                 /\ reg[Last.a] # exact % 256

\* LDI R0,255; ADD R0,R0 has run from the initial state and R0 holds 510.
C15_Witness ==
    /\ Len(hist) = 2
    /\ hist[1].op = LDI
    /\ hist[1].pc = 0
    /\ hist[1].b = 255
    /\ Did(ADD)
    /\ Last.a = 0
    /\ Last.b = 0
    /\ reg[0] = 510

\* C16: in every reachable state each of the 256 memory cells holds a byte
\* value in 0..255; in particular the value a PUSH writes (a register value)
\* and the value a CALL writes (pc + 2) are in 0..255.
C16_MemoryHoldsBytes ==
    /\ \A i \in 0..(RamSize - 1) : ram[i] \in 0..255
    /\ Did(PUSH) => Last.reg[Last.a] \in 0..255
    /\ Did(CALL) => (Last.pc + 2) \in 0..255

\* Every register but r, every memory cell but c is as the last cycle found it.
RegsKeptExcept(r) == \A i \in 0..(NumRegs - 1) : i # r => reg[i] = Last.reg[i]
RamKeptExcept(c) == \A i \in 0..(RamSize - 1) : i # c => ram[i] = Last.ram[i]

\* C17: an instruction changes only what its row names: LDI, ADD, MUL only
\* register a and pc; PRN only the output and pc; PUSH and CALL only sp, the
\* one memory cell at the new sp, and pc; POP only register a, sp and pc; HLT
\* only the running flag.  fl is false in every reachable state, and sp
\* changes by -1 in a PUSH or CALL cycle, by +1 in a POP cycle, and in no other.
C17_Frame ==
    /\ fl = FALSE
    /\ \A op \in {LDI, ADD, MUL} :
          Did(op) => /\ RegsKeptExcept(Last.a)
                     /\ ram = Last.ram /\ sp = Last.sp /\ out = Last.out /\ running
    /\ Did(PRN) => /\ reg = Last.reg
                    /\ ram = Last.ram /\ sp = Last.sp /\ running
    /\ \A op \in {PUSH, CALL} :
          Did(op) => /\ sp = Last.sp - 1
                     /\ RamKeptExcept(RamIndex(sp).at)
                     /\ reg = Last.reg /\ out = Last.out /\ running
    /\ Did(POP) => /\ sp = Last.sp + 1
                    /\ RegsKeptExcept(Last.a)
                    /\ ram = Last.ram /\ out = Last.out /\ running
    /\ Did(HLT) => /\ ~running
                    /\ reg = Last.reg /\ ram = Last.ram /\ sp = Last.sp
                    /\ pc = Last.pc /\ out = Last.out
    /\ (hist # << >> /\ stage # "new")
          => /\ (sp - Last.sp) \in {-1, 0, 1}
             /\ sp = Last.sp - 1 => Last.op \in {PUSH, CALL}
             /\ sp = Last.sp + 1 => Last.op = POP

\* A PUSH has written a value other than 0 over a cell that held 0, in a
\* machine whose registers hold values other than 0.
C17_Witness ==
    /\ Did(PUSH)
    /\ sp = Last.sp - 1
    /\ sp \in 0..(RamSize - 1)
    /\ Last.ram[sp] = 0
    /\ ram[sp] > 0
    /\ reg[0] > 0
    /\ pc = Last.pc + 2

\* C18: every cycle reads memory at pc, pc + 1 and pc + 2 before the opcode
\* is decoded: a cycle that starts with pc = 254 or 255 ends in the
\* out-of-range fatal error before any opcode takes effect, and a HLT stored
\* at address 254 or 255 never makes run() return.
C18_FetchReadsThree ==
    /\ (hist # << >> /\ stage # "new" /\ Last.op >= 0) => Last.pc + 2 <= 255
    /\ (hist # << >> /\ stage # "new" /\ Last.pc \in {254, 255})
          => /\ stage = "IndexError"
             /\ running
             /\ reg = Last.reg /\ ram = Last.ram /\ sp = Last.sp
             /\ pc = Last.pc /\ out = Last.out
    /\ stage = "returned" => Last.pc \notin {254, 255}

\* A cycle that started at address 255, where a HLT is stored, after a CALL
\* that wrote the stack, has ended in the error.
C18_Witness ==
    /\ hist # << >>
    /\ Last.pc = 255
    /\ Last.ram[255] = HLT
    /\ Last.sp = InitSP - 1
    /\ stage = "IndexError"
    /\ running

\* C19: a cycle that ends in a fatal error is atomic: the registers, sp, pc
\* and every memory cell have the values they had when the cycle started.
C19_FailureIsAtomic ==
    (hist # << >> /\ stage \in {"IndexError", "Exception"})
        => /\ reg = Last.reg
           /\ sp = Last.sp
           /\ pc = Last.pc
           /\ ram = Last.ram

TypeOK ==
    /\ ram \in [0..(RamSize - 1) -> Nat]
    /\ reg \in [0..(NumRegs - 1) -> Nat]
    /\ pc \in Nat
    /\ sp \in Int
    /\ fl = FALSE
    /\ stage \in {"new", "running", "returned", "IndexError", "Exception"}

====
